---- MODULE Spec2Model ----
(***************************************************************************)
(* Model of the mutation-string reconstruction code of                     *)
(* paper/gfp_prediction.ipynb: aa_pos, aa_letter, mut2seq, count_mutations.*)
(*                                                                         *)
(* A Python str is a sequence of one-character strings.  A Python value    *)
(* that may be an int, a str, None or not yet bound is a record            *)
(* [tag, n, s, exc, at]; a raised exception is such a record with          *)
(* tag = "raise", its class in exc and the raising statement in at.        *)
(***************************************************************************)
EXTENDS Integers, Sequences, FiniteSets, TLC

VARIABLES
    mutation_string,  \* argument of mut2seq and of count_mutations
    wt_sequence,      \* argument of mut2seq (the caller's reference)
    delimiter,        \* argument of mut2seq
    pc,               \* position inside mut2seq: "start", "loop", "done"
    mutations,        \* local of mut2seq: the tokens of the split
    idx,              \* number of the next token the for loop takes
    mutant_sequence,  \* local of mut2seq: the working list
    mut,              \* local of mut2seq: the loop variable
    position,         \* local of mut2seq
    letter,           \* local of mut2seq
    outcome,          \* what the call of mut2seq produced
    count             \* what the call of count_mutations produced

vars == <<mutation_string, wt_sequence, delimiter, pc, mutations, idx,
          mutant_sequence, mut, position, letter, outcome, count>>

----------------------------------------------------------------------------
(* Bounds of the model *)

MaxDigits == 3   \* longest position segment of a single-token input
MaxMuts   == 2   \* most tokens joined into one mutation string
MaxRefLen == 4   \* longest reference sequence

----------------------------------------------------------------------------
(* Python values *)

NoneVal      == [tag |-> "None",    n |-> 0, s |-> <<>>, exc |-> "", at |-> ""]
Unbound      == [tag |-> "unbound", n |-> 0, s |-> <<>>, exc |-> "", at |-> ""]
IntVal(k)    == [tag |-> "int",     n |-> k, s |-> <<>>, exc |-> "", at |-> ""]
StrVal(str)  == [tag |-> "str",     n |-> 0, s |-> str,  exc |-> "", at |-> ""]
Raise(e, w)  == [tag |-> "raise",   n |-> 0, s |-> <<>>, exc |-> e,  at |-> w]

\* Truth value testing of `not v`
Falsy(v) ==
    \/ v.tag = "None"
    \/ v.tag = "str" /\ v.s = <<>>
    \/ v.tag = "int" /\ v.n = 0

----------------------------------------------------------------------------
(* Built-ins the code calls *)

DigitChars == {"0", "1", "2", "3", "4", "5", "6", "7", "8", "9"}

DigitVal(c) ==
    CASE c = "0" -> 0 [] c = "1" -> 1 [] c = "2" -> 2 [] c = "3" -> 3
      [] c = "4" -> 4 [] c = "5" -> 5 [] c = "6" -> 6 [] c = "7" -> 7
      [] c = "8" -> 8 [] c = "9" -> 9

RECURSIVE DigitsToInt(_)
DigitsToInt(str) ==
    IF str = <<>> THEN 0
    ELSE 10 * DigitsToInt(SubSeq(str, 1, Len(str) - 1)) + DigitVal(str[Len(str)])

\* int(str): an optional sign, then one or more decimal digits; anything else
\* raises ValueError.  (The inputs of the model hold no blank and no "_".)
int(str) ==
    LET signed == str # <<>> /\ str[1] \in {"-", "+"}
        digits == IF signed THEN Tail(str) ELSE str
    IN  IF digits # <<>> /\ \A i \in 1..Len(digits) : digits[i] \in DigitChars
        THEN IntVal(IF signed /\ str[1] = "-"
                    THEN 0 - DigitsToInt(digits) ELSE DigitsToInt(digits))
        ELSE Raise("ValueError", "int")

\* str.split(sep) for a one-character sep
RECURSIVE split(_, _)
split(str, sep) ==
    IF \E i \in 1..Len(str) : str[i] = sep
    THEN LET i == CHOOSE j \in 1..Len(str) :
                      /\ str[j] = sep
                      /\ \A k \in 1..(j - 1) : str[k] # sep
         IN  <<SubSeq(str, 1, i - 1)>> \o split(SubSeq(str, i + 1, Len(str)), sep)
    ELSE <<str>>

\* list(str): the list of the one-character strings of str
list(str) == [i \in 1..Len(str) |-> <<str[i]>>]

\* "".join(l for l in lst)
RECURSIVE join(_)
join(lst) == IF lst = <<>> THEN <<>> ELSE Head(lst) \o join(Tail(lst))

\* mut[2:-1] and mut[-1] of a non-empty str
Slice2ToLast(str) == SubSeq(str, 3, Len(str) - 1)
LastChar(str)     == <<str[Len(str)]>>

\* lst[i] = x for an int i: Python's zero-based index, negative i counted
\* from the end, IndexError outside -len..len-1
SetItemInsert(lst, i, x) ==
    IF 0 <= i /\ i < Len(lst)
    THEN [ok |-> TRUE,
          lst |-> SubSeq(lst, 1, i) \o <<x>> \o SubSeq(lst, i + 1, Len(lst))]
    ELSE IF 0 - Len(lst) <= i /\ i < 0
    THEN [ok |-> TRUE, lst |-> [lst EXCEPT ![Len(lst) + i + 1] = x]]
    ELSE [ok |-> FALSE, lst |-> lst]

SetItem(lst, i, x) ==
    IF 0 <= i /\ i < Len(lst)
    THEN [ok |-> TRUE, lst |-> [lst EXCEPT ![i + 1] = x]]
    ELSE IF 0 - Len(lst) <= i /\ i < 0
    THEN [ok |-> TRUE, lst |-> [lst EXCEPT ![Len(lst) + i + 1] = x]]
    ELSE [ok |-> FALSE, lst |-> lst]

----------------------------------------------------------------------------
(* The functions of the notebook *)

\* aa_pos(mut): `if not mut: return mut` else int(mut[2:-1])
aa_pos(m) == IF Falsy(m) THEN m ELSE int(Slice2ToLast(m.s))

\* aa_letter(mut): `if not mut: return mut` else mut[-1]
aa_letter(m) == IF Falsy(m) THEN m ELSE StrVal(LastChar(m.s))

\* the test of mut2seq's first statement
IsNoMutationEmptyOnly(ms) == ms.tag = "str" /\ ms.s = <<>>

IsNoMutation(ms) == ms.tag = "None" \/ (ms.tag = "str" /\ ms.s = <<>>)

\* the token the for loop binds to mut in its k-th round
NextMutReversed(muts, k) == muts[Len(muts) + 1 - k]

NextMut(muts, k) == muts[k]

\* count_mutations(x)
count_mutations(x) ==
    IF x.tag = "str" /\ x.s = <<>> THEN IntVal(0)
    ELSE IF x.tag # "str" THEN Raise("AttributeError", "split")
    ELSE IntVal(Len(split(x.s, ":")))

----------------------------------------------------------------------------
(* Inputs *)

\* the leading residues of the notebook's wild-type sequence
wt == <<"S", "K", "G", "E", "E", "L", "F", "T">>

RefSeqs == {SubSeq(wt, 1, k) : k \in 0..MaxRefLen}

Delimiters == {":", ";"}

NewLetters == {"T", "C"}

StringsUpTo(chars, k) == UNION {[1..j -> chars] : j \in 0..k}

\* one-token inputs: up to two leading letters, a position segment, a residue
Heads == {<<>>, <<"A">>, <<"S", "A">>}
Mids  == StringsUpTo({"-", "0", "1", "2"}, MaxDigits)
Tails == {<<>>} \cup {<<x>> : x \in NewLetters}

SingleTokens == {h \o m \o t : h \in Heads, m \in Mids, t \in Tails}

\* tokens of the multi-token inputs
ListTokens ==
    {<<>>, <<"A", "1", "T">>, <<"A", "1", "2", "T">>}
    \cup {<<"S", "A">> \o m \o <<x>> :
             m \in {<<"0">>, <<"1">>, <<"2">>, <<"-", "1">>}, x \in NewLetters}

RECURSIVE JoinWith(_, _)
JoinWith(toks, sep) ==
    IF Len(toks) = 0 THEN <<>>
    ELSE IF Len(toks) = 1 THEN toks[1]
    ELSE toks[1] \o <<sep>> \o JoinWith(Tail(toks), sep)

TokenLists == UNION {[1..j -> ListTokens] : j \in 2..MaxMuts}

MutationStrings ==
    {NoneVal}
    \cup {StrVal(t) : t \in SingleTokens}
    \cup {StrVal(JoinWith(l, d)) : l \in TokenLists, d \in Delimiters}

----------------------------------------------------------------------------
(* mut2seq, one action per step of its control flow *)

Init ==
    /\ mutation_string \in MutationStrings
    /\ wt_sequence \in RefSeqs
    /\ delimiter \in Delimiters
    /\ pc = "start"
    /\ mutations = <<>>
    /\ idx = 0
    /\ mutant_sequence = <<>>
    /\ mut = Unbound
    /\ position = Unbound
    /\ letter = Unbound
    /\ outcome = Unbound
    /\ count = Unbound

\* the first statement, the split and the copy of the reference
Call ==
    /\ pc = "start"
    /\ IF IsNoMutation(mutation_string)
       THEN /\ outcome' = StrVal(wt_sequence)
            /\ pc' = "done"
            /\ UNCHANGED <<mutations, idx, mutant_sequence>>
       ELSE IF mutation_string.tag # "str"
       THEN /\ outcome' = Raise("AttributeError", "split")
            /\ pc' = "done"
            /\ UNCHANGED <<mutations, idx, mutant_sequence>>
       ELSE /\ mutations' = split(mutation_string.s, delimiter)
            /\ mutant_sequence' = list(wt_sequence)
            /\ idx' = 1
            /\ pc' = "loop"
            /\ UNCHANGED outcome
    /\ UNCHANGED <<mutation_string, wt_sequence, delimiter, mut, position,
                   letter, count>>

\* one round of the for loop on token m: the locals and the list after it,
\* and the exception it raised, if any (exc = Unbound when it raised none)
LoopBody(m, seq, wtlen, pos, let) ==
    LET p == aa_pos(m)
        l == aa_letter(m)
    IN  IF p.tag = "raise"
        THEN [position |-> pos, letter |-> let, seq |-> seq, exc |-> p]
        ELSE IF p.tag = "int" /\ p.n = 0
        THEN [position |-> p, letter |-> l, seq |-> seq,
              exc |-> Raise("ValueError", "zero")]
        ELSE IF p.tag # "int"
        THEN [position |-> p, letter |-> l, seq |-> seq,
              exc |-> Raise("TypeError", "greater")]
        ELSE IF p.n > wtlen
        THEN [position |-> p, letter |-> l, seq |-> seq,
              exc |-> Raise("ValueError", "greater")]
        ELSE LET w == SetItem(seq, p.n, l.s)
             IN  IF w.ok
                 THEN [position |-> p, letter |-> l, seq |-> w.lst,
                       exc |-> Unbound]
                 ELSE [position |-> p, letter |-> l, seq |-> seq,
                       exc |-> Raise("IndexError", "setitem")]

Iterate ==
    /\ pc = "loop"
    /\ idx <= Len(mutations)
    /\ LET m == StrVal(NextMut(mutations, idx))
           r == LoopBody(m, mutant_sequence, Len(wt_sequence), position, letter)
       IN  /\ mut' = m
           /\ position' = r.position
           /\ letter' = r.letter
           /\ mutant_sequence' = r.seq
           /\ idx' = idx + 1
           /\ IF r.exc.tag = "raise"
              THEN outcome' = r.exc /\ pc' = "done"
              ELSE UNCHANGED <<outcome, pc>>
    /\ UNCHANGED <<mutation_string, wt_sequence, delimiter, mutations, count>>

\* the return statement after the loop
Return ==
    /\ pc = "loop"
    /\ idx > Len(mutations)
    /\ outcome' = StrVal(join(mutant_sequence))
    /\ pc' = "done"
    /\ UNCHANGED <<mutation_string, wt_sequence, delimiter, mutations, idx,
                   mutant_sequence, mut, position, letter, count>>

\* the pipeline's call of count_mutations on the same column, after mut2seq
CountMutations ==
    /\ pc = "done"
    /\ count = Unbound
    /\ count' = count_mutations(mutation_string)
    /\ UNCHANGED <<mutation_string, wt_sequence, delimiter, pc, mutations, idx,
                   mutant_sequence, mut, position, letter, outcome>>

Next == Call \/ Iterate \/ Return \/ CountMutations

Spec == Init /\ [][Next]_vars

----------------------------------------------------------------------------
(* Vocabulary of the properties *)

Letters == {"A", "S", "T", "C"}

NoMutations == mutation_string = NoneVal \/ mutation_string = StrVal(<<>>)

Finished == pc = "done"

Returned == Finished /\ outcome.tag = "str"

\* the position mut2seq computes for a token, and whether it is an integer
\* inside 1..len(wt_sequence)
CodePos(tok) == aa_pos(StrVal(tok))

InBounds(tok) ==
    /\ CodePos(tok).tag = "int"
    /\ 1 <= CodePos(tok).n
    /\ CodePos(tok).n <= Len(wt_sequence)

\* the documented notation <letter><digits><letter> and the position and
\* residue it denotes
Segment(tok) == SubSeq(tok, 2, Len(tok) - 1)

DocForm(tok) ==
    /\ Len(tok) >= 3
    /\ tok[1] \in Letters
    /\ tok[Len(tok)] \in Letters
    /\ \A i \in 2..(Len(tok) - 1) : tok[i] \in DigitChars

DocPos(tok) == DigitsToInt(Segment(tok))

\* a token with no integer between its first and its last character
Malformed(tok) == Len(tok) < 3 \/ int(Segment(tok)).tag = "raise"

DocValid(tok) ==
    /\ ~Malformed(tok)
    /\ 1 <= int(Segment(tok)).n
    /\ int(Segment(tok)).n <= Len(wt_sequence)

\* the rounds of the loop that target index i
Writers(i) == {k \in 1..Len(mutations) : CodePos(mutations[k]).n = i}

MaxOf(S) == CHOOSE k \in S : \A j \in S : j <= k

----------------------------------------------------------------------------
(* Properties *)

\* C1: called with the empty or the None mutation string, mut2seq returns
\* exactly the reference sequence and raises nothing.
C1_Identity == (Finished /\ NoMutations) => outcome = StrVal(wt_sequence)

C1_Witness ==
    /\ Finished
    /\ mutation_string = NoneVal
    /\ wt_sequence # <<>>
    /\ outcome = StrVal(wt_sequence)

\* C2: a token whose parsed integer position is outside 1..len(reference)
\* (zero, too large or negative) makes mut2seq fail with the invalid-position
\* error of its two checks; the position is never written.
C2_PositionBounds ==
    (/\ mut.tag = "str"
     /\ position = aa_pos(mut)
     /\ position.tag = "int"
     /\ ~(1 <= position.n /\ position.n <= Len(wt_sequence)))
    => (/\ outcome.tag = "raise"
        /\ outcome.exc = "ValueError"
        /\ outcome.at \in {"zero", "greater"})

\* C3: whenever mut2seq returns a sequence, it is as long as the reference.
C3_LengthPreserved == Returned => Len(outcome.s) = Len(wt_sequence)

C3_Witness ==
    /\ Returned
    /\ Len(mutations) = 2
    /\ outcome.s # wt_sequence

\* C4: one token <letter><digits p><letter x> with 1 <= p < len(reference)
\* returns the reference with x at zero-based index p and nothing else changed.
C4_SingleMutation ==
    (/\ Finished
     /\ mutation_string.tag = "str"
     /\ DocForm(mutation_string.s)
     /\ 1 <= DocPos(mutation_string.s)
     /\ DocPos(mutation_string.s) < Len(wt_sequence))
    => (/\ outcome.tag = "str"
        /\ Len(outcome.s) = Len(wt_sequence)
        /\ \A i \in 0..(Len(wt_sequence) - 1) :
              outcome.s[i + 1] =
                  IF i = DocPos(mutation_string.s)
                  THEN mutation_string.s[Len(mutation_string.s)]
                  ELSE wt_sequence[i + 1])

\* C5: for a token <letter><digits><letter>, aa_pos is the integer written
\* between its first and its last character and aa_letter is its last
\* character; the empty token is handed back unchanged by both.
C5_ParsePosition ==
    /\ (mut.tag = "str" /\ DocForm(mut.s))
           => (/\ aa_pos(mut) = IntVal(DocPos(mut.s))
               /\ position = IntVal(DocPos(mut.s))
               /\ letter = StrVal(<<mut.s[Len(mut.s)]>>))
    /\ (mut.tag = "str" /\ mut.s = <<>>)
           => (position = mut /\ letter = mut)

C7_CountMatchesTokens ==
    (count # Unbound /\ mutation_string.tag = "str")
    => IF mutation_string.s = <<>>
       THEN count = IntVal(0)
       ELSE count = IntVal(Len(mutations))

\* C8: a list of two or more tokens with an invalid token (malformed, or its
\* position outside 1..len(reference)) never yields a returned sequence.
C8_AllOrNothing ==
    (/\ Finished
     /\ Len(mutations) >= 2
     /\ \E k \in 1..Len(mutations) : ~InBounds(mutations[k]))
    => outcome.tag = "raise"

\* C9: when the first token that is not valid is malformed (too short, empty,
\* or with no integer between its first and last character), mut2seq fails
\* with the error of a failed integer parse.
C9_MalformedFails ==
    (/\ Finished
     /\ ~NoMutations
     /\ \E k \in 1..Len(mutations) :
            /\ Malformed(mutations[k])
            /\ \A j \in 1..(k - 1) : DocValid(mutations[j]))
    => outcome = Raise("ValueError", "int")

\* C10: a list whose tokens all parse to positions inside 1..len(reference)
\* returns a sequence, and mut2seq fails only with the malformed-token or the
\* invalid-position error.
C10_InBoundsSucceeds ==
    (Finished /\ ~NoMutations)
    => (/\ (\A k \in 1..Len(mutations) : InBounds(mutations[k]))
               => outcome.tag = "str"
        /\ outcome.tag = "raise" => outcome.exc = "ValueError")

====
